---------------------------- MODULE Spec2Model ----------------------------
(***************************************************************************)
(* Task adaptors of boost::threadpool (boost/threadpool/task_adaptors.hpp): *)
(* task_functor, priority_task_functor and looped_task_functor.             *)
(*                                                                         *)
(* Two wrapper objects, a and b, of the same class template are alive.     *)
(* The operations of the header act on them: empty(), operator(),          *)
(* operator<, and the converting constructors between result types.  The   *)
(* looped wrapper's operator() blocks its caller, so it is modelled step   *)
(* by step: every timed sleep, every call of the held function and every   *)
(* yield is one step, logged in trace.                                     *)
(*                                                                         *)
(* Values of the result type Signature are coded as integers: void has the *)
(* single value 0, bool is 0 (false) / 1 (true), int is 0..MaxInt.  A      *)
(* value is truthy, as C++ converts it in `while (task_function())`, when  *)
(* it is not 0.                                                            *)
(*                                                                         *)
(* Spec runs the operations on the two objects.  The other specifications  *)
(* look at one concern each: SpecCtor at the looped constructor's          *)
(* arithmetic, SpecRun at a constructed looped wrapper that is then run,   *)
(* SpecFair at a run whose sleeps, yields and calls all return, SpecTimed  *)
(* at the clock read before every sleep, SpecOrder at operator< over three *)
(* tasks, and SpecQueue at a priority container ordered by operator<.      *)
(***************************************************************************)
EXTENDS Integers, Sequences, FiniteSets, TLC

\* ------------------------------------------------------------- bounds
\* Largest number of times a caller-supplied function returns true before
\* it stops (returns false, or throws).
MaxN == 2
\* Largest value an int-returning function or an undefined read produces.
MaxInt == 1
\* Small priorities; the largest unsigned value is always included too.
MaxPrio == 1
\* A function that never returns false is followed for this many calls.
MaxCalls == MaxN + 2

\* ---------------------------------------------------- unsigned int
\* `unsigned int` (m_priority, m_break_s, m_break_ns, interval) is 32 bits
\* wide.  A value is kept as two 16-bit halves, hi * 2^16 + lo, and its
\* arithmetic is done half by half, so that a product or a difference that
\* leaves the 32 bits is cut exactly as the machine cuts it.
Half == 2^16

U32(hi, lo) == [hi |-> hi, lo |-> lo]

\* n < 2^31 as an unsigned int.
FromNat(n) == U32(n \div Half, n % Half)

Zero == U32(0, 0)

UINT_MAX == U32(Half - 1, Half - 1)

\* x < y
Lt(x, y) == x.hi < y.hi \/ (x.hi = y.hi /\ x.lo < y.lo)

\* x * m for a small m (m <= 1000): the low 32 bits, and in `over` what
\* was cut off.
MulFull(x, m) ==
    LET p == x.lo * m
        q == x.hi * m + (p \div Half)
    IN [val |-> U32(q % Half, p % Half), over |-> q \div Half]

Mul(x, m) == MulFull(x, m).val

\* x - y: the low 32 bits, and in `borrow` whether it went below zero.
SubFull(x, y) ==
    LET bl == IF x.lo < y.lo THEN 1 ELSE 0
        l  == x.lo - y.lo + bl * Half
        h  == x.hi - y.hi - bl
        bh == IF h < 0 THEN 1 ELSE 0
    IN [val |-> U32(h + bh * Half, l), borrow |-> bh]

Sub(x, y) == SubFull(x, y).val

\* x + y: the low 32 bits, and the carry out of them.
AddFull(x, y) ==
    LET l == x.lo + y.lo
        h == x.hi + y.hi + (l \div Half)
    IN [val |-> U32(h % Half, l % Half), carry |-> h \div Half]

\* x / d for a small d (d <= 1000), by long division over the halves.
Div(x, d) ==
    LET r == (x.hi % d) * Half + x.lo
    IN U32(x.hi \div d, r \div d)

\* x mod d for a small d.
Mod(x, d) == FromNat(((x.hi % d) * Half + x.lo) % d)

\* --------------------------------------------------- result types
Sigs == {"void", "bool", "int"}

\* looped_task_functor<Signature>::operator() tests the function's result
\* in a while condition, so it only compiles for these.
LoopSigs == {"bool", "int"}

Values(sig) == IF sig = "void" THEN {0} ELSE IF sig = "bool" THEN {0, 1} ELSE 0..MaxInt

\* Signature(): the value-initialised result.
DefaultValue(sig) == 0

Truthy(v) == v # 0

\* ------------------------------------------------ held function objects
\* function<Signature(void)> task_function is one of:
\*   empty   - a boost::function without target;
\*   default - the lambda of the constructors' default argument, which
\*             returns Signature();
\*   user    - a caller-supplied function.  Its behaviour within one
\*             operator() is a script: it returns true `trues` times and
\*             then does `last`: returns false, or throws; with
\*             last = "never" it returns true on every call.
EmptyFn == [tag |-> "empty", trues |-> 0, last |-> "false"]

DefaultFn == [tag |-> "default", trues |-> 0, last |-> "false"]

UserFns == [tag : {"user"}, trues : 0..MaxN, last : {"false", "throw"}]
             \cup {[tag |-> "user", trues |-> 0, last |-> "never"]}

Fns == {EmptyFn, DefaultFn} \cup UserFns

\* What the k-th call (k >= 1) of fn within one operator() does.
Outcome(sig, fn, k) ==
    IF fn.tag = "default" THEN [kind |-> "ret", val |-> DefaultValue(sig)]
    ELSE IF fn.last = "never" \/ k <= fn.trues
         THEN [kind |-> "ret", val |-> IF sig = "void" THEN 0 ELSE 1]
    ELSE IF fn.last = "throw" THEN [kind |-> "throw", val |-> 0]
    ELSE [kind |-> "ret", val |-> 0]

\* ------------------------------------------------------------ wrappers
\* One record shape for the three classes; a field a class does not have
\* is zero.
Wrapper(kind, sig, fn, prio, s, ns) ==
    [kind |-> kind, sig |-> sig, fn |-> fn, prio |-> prio,
     break_s |-> s, break_ns |-> ns]

\* task_functor(input_function = default lambda)
TaskCtor(sig, fn) == Wrapper("basic", sig, fn, Zero, Zero, Zero)

\* priority_task_functor(priority, input_function = default lambda)
PriorityCtor(sig, prio, fn) == Wrapper("priority", sig, fn, prio, Zero, Zero)

\* m_break_s = interval / 1000;
BreakSeconds(interval) == Div(interval, 1000)

\* The nanoseconds taken from the whole interval, the seconds not
\* subtracted.
BreakNanosOfWhole(interval) == Mul(Mul(interval, 1000), 1000)

\* m_break_ns = (interval - m_break_s * 1000) * 1000 * 1000;
BreakNanos(interval) ==
    Mul(Mul(Sub(interval, Mul(BreakSeconds(interval), 1000)), 1000), 1000)

\* looped_task_functor(input_function = default lambda, interval = 0)
LoopedCtor(sig, fn, interval) ==
    Wrapper("looped", sig, fn, Zero, BreakSeconds(interval), BreakNanos(interval))

\* The conversion with its base built from an empty function object.
PriorityConvertEmpty(sig, src) ==
    Wrapper("priority", sig, EmptyFn, src.prio, Zero, Zero)

\* priority_task_functor(const priority_task_functor<U>&): the base is
\* built by task_functor<Signature>(), that is with the default argument.
PriorityConvert(sig, src) ==
    Wrapper("priority", sig, DefaultFn, src.prio, Zero, Zero)

\* The conversion with its base built from an empty function object.
LoopedConvertEmpty(sig, src) ==
    Wrapper("looped", sig, EmptyFn, Zero, src.break_s, src.break_ns)

\* looped_task_functor(const looped_task_functor<U>&)
LoopedConvert(sig, src) ==
    Wrapper("looped", sig, DefaultFn, Zero, src.break_s, src.break_ns)

\* priority_task_functor::operator=(const priority_task_functor<U>&):
\* this->m_priority = input_reference.m_priority.
PriorityAssign(dst, src) == [dst EXCEPT !.prio = src.prio]

\* The assignment done by building the object anew from the source.
LoopedAssignRebuilds(dst, src) == LoopedConvert(dst.sig, src)

\* looped_task_functor::operator=(const looped_task_functor<U>&)
LoopedAssign(dst, src) ==
    [dst EXCEPT !.break_ns = src.break_ns, !.break_s = src.break_s]

\* empty() taking the default lambda for no function.
IsEmptyOrDefault(wr) == wr.fn.tag \in {"empty", "default"}

\* task_functor::empty()
IsEmpty(wr) == wr.fn.tag = "empty"

\* operator< with its operands swapped.
LessReversed(lhs, rhs) == Lt(rhs.prio, lhs.prio)

\* operator< written with <= in place of <.
LessOrEqual(lhs, rhs) == ~Lt(rhs.prio, lhs.prio)

\* priority_task_functor::operator<
Less(lhs, rhs) == Lt(lhs.prio, rhs.prio)

\* The break test looking at the seconds alone.
HasBreakSecondsOnly(wr) == Lt(Zero, wr.break_s)

\* The test `m_break_s > 0 || m_break_ns > 0` of looped operator().
HasBreak(wr) == Lt(Zero, wr.break_s) \/ Lt(Zero, wr.break_ns)

\* ------------------------------------------------------------- inputs
Prios == {FromNat(p) : p \in 0..MaxPrio} \cup {UINT_MAX}

Intervals == {FromNat(0), FromNat(1), FromNat(1500), UINT_MAX}

BasicWrappers == {TaskCtor(sig, fn) : sig \in Sigs, fn \in Fns}

PriorityWrappers ==
    UNION {{PriorityCtor(sig, p, fn) : sig \in Sigs, fn \in Fns} : p \in Prios}

LoopedWrappers ==
    UNION {{LoopedCtor(sig, fn, i) : sig \in LoopSigs, fn \in Fns} : i \in Intervals}

Slots == {"a", "b"}

Other(slot) == IF slot = "a" THEN "b" ELSE "a"

\* -------------------------------------------------------------- state
VARIABLES
    w,       \* the two wrapper objects
    origin,  \* how each object was made: "ctor" or "convert"
    pc,      \* position of the one caller: "idle", inside the looped
             \* operator() ("predelay", "loop", "break"), "done", "thrown"
    cur,     \* the object the last operation acted on
    trace,   \* sleeps, calls and yields of the current operator()
    ret,     \* the last operation and what it returned
    pending, \* the tasks a scheduler's container holds, oldest first
    now,     \* the clock xtime_get reads, as (sec, nsec)
    times    \* for each event of trace, when it began and ended

vars == <<w, origin, pc, cur, trace, ret, pending, now, times>>

\* An xtime value; nsec may exceed a second until it is normalised.
Xtime(sec, nsec) == [sec |-> sec, nsec |-> nsec]

Epoch == Xtime(0, 0)

\* The events of trace.  A sleep carries its duration; a call carries the
\* function that ran (its tag), how it ended ("ret" or "throw") and the
\* value it returned.
SleepEv(s, ns) ==
    [op |-> "sleep", s |-> s, ns |-> ns, fn |-> "", out |-> "", res |-> 0]

CallEv(fn, out) ==
    [op |-> "call", s |-> Zero, ns |-> Zero, fn |-> fn.tag, out |-> out.kind,
     res |-> out.val]

YieldEv ==
    [op |-> "yield", s |-> Zero, ns |-> Zero, fn |-> "", out |-> "", res |-> 0]

\* What the last operation was, the value it returned and, for a
\* construction, the interval it was given.
Ret(op, val) == [op |-> op, val |-> val, arg |-> Zero]

IsCall(e) == e.op = "call"

IsSleep(e) == e.op = "sleep"

IsYield(e) == e.op = "yield"

\* How many events of one kind a run has logged.
Count(seq, op) == Cardinality({i \in 1..Len(seq) : seq[i].op = op})

Calls == Count(trace, "call")

Sleeps == Count(trace, "sleep")

Yields == Count(trace, "yield")

\* No operator() is in progress.
AtRest == pc \in {"idle", "done", "thrown"}

Init ==
    /\ \/ w \in [Slots -> BasicWrappers]
       \/ w \in [Slots -> PriorityWrappers]
       \/ w \in [Slots -> LoopedWrappers]
    /\ origin = [s \in Slots |-> "ctor"]
    /\ pc = "idle"
    /\ cur = "a"
    /\ trace = <<>>
    /\ ret = Ret("none", 0)
    /\ pending = <<>>
    /\ now = Epoch
    /\ times = <<>>

\* bool empty()
Empty(i) ==
    /\ AtRest
    /\ pc' = "idle"
    /\ cur' = i
    /\ trace' = <<>>
    /\ ret' = Ret("empty", IF IsEmpty(w[i]) THEN 1 ELSE 0)
    /\ UNCHANGED <<w, origin, pending, now, times>>

\* bool operator<(const priority_task_functor &rhs) const, as w[i] < w[Other(i)]
Compare(i) ==
    /\ AtRest
    /\ w[i].kind = "priority"
    /\ w[Other(i)].kind = "priority"
    /\ w[i].sig = w[Other(i)].sig
    /\ pc' = "idle"
    /\ cur' = i
    /\ trace' = <<>>
    /\ ret' = Ret("less", IF Less(w[i], w[Other(i)]) THEN 1 ELSE 0)
    /\ UNCHANGED <<w, origin, pending, now, times>>

\* operator() calling the function and dropping what it returned.
InvokeDropsResult(i) ==
    /\ AtRest
    /\ w[i].kind \in {"basic", "priority"}
    /\ cur' = i
    /\ IF ~IsEmpty(w[i])
       THEN LET out == Outcome(w[i].sig, w[i].fn, 1)
            IN /\ trace' = <<CallEv(w[i].fn, out)>>
               /\ pc' = IF out.kind = "throw" THEN "thrown" ELSE "done"
               /\ ret' = Ret("invoke", DefaultValue(w[i].sig))
       ELSE /\ trace' = <<>>
            /\ pc' = "done"
            /\ \E v \in Values(w[i].sig) : ret' = Ret("invoke", v)
    /\ UNCHANGED <<w, origin, pending, now, times>>

\* Signature operator()(void) const of task_functor and of
\* priority_task_functor (the same body twice).  With an empty function
\* the body ends without a return statement: for a non-void Signature the
\* caller reads a value that was never set, any value of the type.
Invoke(i) ==
    /\ AtRest
    /\ w[i].kind \in {"basic", "priority"}
    /\ cur' = i
    /\ IF ~IsEmpty(w[i])
       THEN LET out == Outcome(w[i].sig, w[i].fn, 1)
            IN /\ trace' = <<CallEv(w[i].fn, out)>>
               /\ pc' = IF out.kind = "throw" THEN "thrown" ELSE "done"
               /\ ret' = Ret("invoke", out.val)
       ELSE /\ trace' = <<>>
            /\ pc' = "done"
            /\ \E v \in Values(w[i].sig) : ret' = Ret("invoke", v)
    /\ UNCHANGED <<w, origin, pending, now, times>>

\* operator() entered on a non-const object that gives its function
\* away: the wrapper is empty from then on.
LoopedEnterConsumes(i) ==
    /\ AtRest
    /\ w[i].kind = "looped"
    /\ cur' = i
    /\ trace' = <<>>
    /\ ret' = Ret("invoke", 0)
    /\ pc' = "done"
    /\ w' = [w EXCEPT ![i].fn = EmptyFn]
    /\ UNCHANGED <<origin, pending, now, times>>

\* looped_task_functor::operator(), entry: the emptiness test, and the
\* test that decides whether a sleep precedes the first call.
LoopedEnter(i) ==
    /\ AtRest
    /\ w[i].kind = "looped"
    /\ cur' = i
    /\ trace' = <<>>
    /\ ret' = Ret("invoke", 0)
    /\ pc' = IF IsEmpty(w[i]) THEN "done"
             ELSE IF HasBreak(w[i]) THEN "predelay" ELSE "loop"
    /\ UNCHANGED <<w, origin, pending, now, times>>

\* xtime_get(&xt); xt.nsec += m_break_ns; xt.sec += m_break_s;
\* thread::sleep(xt): the caller sleeps for (m_break_s, m_break_ns).
SleepFor(wr) == SleepEv(wr.break_s, wr.break_ns)

\* The sleep before the first execution, the clock left aside.
PreDelayStep ==
    /\ pc = "predelay"
    /\ trace' = Append(trace, SleepFor(w[cur]))
    /\ pc' = "loop"
    /\ UNCHANGED <<w, origin, cur, ret, pending>>

\* The sleep before the first execution.
PreDelay == PreDelayStep /\ UNCHANGED <<now, times>>

\* The call wrapped in a handler that takes a failure for the stop signal.
CallTaskCatches ==
    /\ pc = "loop"
    /\ Calls < MaxCalls
    /\ LET out == Outcome(w[cur].sig, w[cur].fn, Calls + 1)
       IN /\ trace' = Append(trace, CallEv(w[cur].fn, out))
          /\ pc' = IF out.kind = "ret" /\ Truthy(out.val) THEN "break" ELSE "done"
    /\ UNCHANGED <<w, origin, cur, ret, pending, now, times>>

\* The loop with its condition negated: it goes on while the function
\* returns false.
CallTaskNegated ==
    /\ pc = "loop"
    /\ Calls < MaxCalls
    /\ LET out == Outcome(w[cur].sig, w[cur].fn, Calls + 1)
       IN /\ trace' = Append(trace, CallEv(w[cur].fn, out))
          /\ pc' = IF out.kind = "throw" THEN "thrown"
                   ELSE IF Truthy(out.val) THEN "done" ELSE "break"
    /\ UNCHANGED <<w, origin, cur, ret, pending, now, times>>

\* while (this->task_function()): one call of the held function, the
\* clock left aside.
CallTaskStep ==
    /\ pc = "loop"
    /\ Calls < MaxCalls
    /\ LET out == Outcome(w[cur].sig, w[cur].fn, Calls + 1)
       IN /\ trace' = Append(trace, CallEv(w[cur].fn, out))
          /\ pc' = IF out.kind = "throw" THEN "thrown"
                   ELSE IF Truthy(out.val) THEN "break" ELSE "done"
    /\ UNCHANGED <<w, origin, cur, ret, pending>>

\* while (this->task_function()): one call of the held function.
CallTask == CallTaskStep /\ UNCHANGED <<now, times>>

\* The loop body yielding where it should sleep.
InterDelayYields ==
    /\ pc = "break"
    /\ HasBreak(w[cur])
    /\ trace' = Append(trace, YieldEv)
    /\ pc' = "loop"
    /\ UNCHANGED <<w, origin, cur, ret, pending, now, times>>

\* The loop body when a break is configured: a timed sleep, the clock
\* left aside.
InterDelayStep ==
    /\ pc = "break"
    /\ HasBreak(w[cur])
    /\ trace' = Append(trace, SleepFor(w[cur]))
    /\ pc' = "loop"
    /\ UNCHANGED <<w, origin, cur, ret, pending>>

\* The loop body when a break is configured: a timed sleep.
InterDelay == InterDelayStep /\ UNCHANGED <<now, times>>

\* The loop body without its else branch: it sleeps (for no time) where
\* it should yield.
YieldSleeps ==
    /\ pc = "break"
    /\ ~HasBreak(w[cur])
    /\ trace' = Append(trace, SleepFor(w[cur]))
    /\ pc' = "loop"
    /\ UNCHANGED <<w, origin, cur, ret, pending, now, times>>

\* A yield that never gives the processor back to the loop.
YieldStuck ==
    /\ pc = "break"
    /\ ~HasBreak(w[cur])
    /\ UNCHANGED vars

\* The loop body otherwise: thread::yield().
Yield ==
    /\ pc = "break"
    /\ ~HasBreak(w[cur])
    /\ trace' = Append(trace, YieldEv)
    /\ pc' = "loop"
    /\ UNCHANGED <<w, origin, cur, ret, pending, now, times>>

\* priority_task_functor<R> built from w[Other(i)], a
\* priority_task_functor<U> with U # R, into object i.
ConvertPriority(i) ==
    /\ AtRest
    /\ w[Other(i)].kind = "priority"
    /\ \E sig \in Sigs \ {w[Other(i)].sig} :
          w' = [w EXCEPT ![i] = PriorityConvert(sig, w[Other(i)])]
    /\ origin' = [origin EXCEPT ![i] = "convert"]
    /\ pc' = "idle"
    /\ cur' = i
    /\ trace' = <<>>
    /\ ret' = Ret("convert", 0)
    /\ UNCHANGED <<pending, now, times>>

\* looped_task_functor<R> built from w[Other(i)], a
\* looped_task_functor<U> with U # R, into object i.
ConvertLooped(i) ==
    /\ AtRest
    /\ w[Other(i)].kind = "looped"
    /\ \E sig \in LoopSigs \ {w[Other(i)].sig} :
          w' = [w EXCEPT ![i] = LoopedConvert(sig, w[Other(i)])]
    /\ origin' = [origin EXCEPT ![i] = "convert"]
    /\ pc' = "idle"
    /\ cur' = i
    /\ trace' = <<>>
    /\ ret' = Ret("convert", 0)
    /\ UNCHANGED <<pending, now, times>>

\* w[i] = w[Other(i)] between priority wrappers of different result
\* types.
AssignPriority(i) ==
    /\ AtRest
    /\ w[i].kind = "priority"
    /\ w[Other(i)].kind = "priority"
    /\ w[i].sig # w[Other(i)].sig
    /\ w' = [w EXCEPT ![i] = PriorityAssign(w[i], w[Other(i)])]
    /\ pc' = "idle"
    /\ cur' = i
    /\ trace' = <<>>
    /\ ret' = Ret("assign", 0)
    /\ UNCHANGED <<origin, pending, now, times>>

\* w[i] = w[Other(i)] between looped wrappers of different result types.
AssignLooped(i) ==
    /\ AtRest
    /\ w[i].kind = "looped"
    /\ w[Other(i)].kind = "looped"
    /\ w[i].sig # w[Other(i)].sig
    /\ w' = [w EXCEPT ![i] = LoopedAssign(w[i], w[Other(i)])]
    /\ pc' = "idle"
    /\ cur' = i
    /\ trace' = <<>>
    /\ ret' = Ret("assign", 0)
    /\ UNCHANGED <<origin, pending, now, times>>

Next ==
    \/ \E i \in Slots : Empty(i)
    \/ \E i \in Slots : Compare(i)
    \/ \E i \in Slots : Invoke(i)
    \/ \E i \in Slots : LoopedEnter(i)
    \/ PreDelay
    \/ CallTask
    \/ InterDelay
    \/ Yield
    \/ \E i \in Slots : ConvertPriority(i)
    \/ \E i \in Slots : ConvertLooped(i)
    \/ \E i \in Slots : AssignPriority(i)
    \/ \E i \in Slots : AssignLooped(i)

Spec == Init /\ [][Next]_vars

\* ------------------------------------------- constructing with an interval
\* The looped wrapper's constructor on its own, over many intervals: the
\* interval of the pending call is in ret.arg, and Construct applies
\* looped_task_functor(input_function, interval) to it.
MaxLo == 2100

\* Upper halves around the places where interval * 1000 and
\* interval * 1000 * 1000 leave 32 bits, and at both ends of the range.
CtorHis == {0, 1, 65, 66, 2^15 - 1, 2^15, Half - 2, Half - 1}

CtorLos == 0..MaxLo \cup {4294, 4295, 35127, 35128, Half - 1001, Half - 1000, Half - 1}

CtorIntervals == {U32(hi, lo) : hi \in CtorHis, lo \in CtorLos}

\* The functions given to the constructor: none, the default argument,
\* and one that returns true MaxN times before it returns false.
CtorFns == {EmptyFn, DefaultFn, [tag |-> "user", trues |-> MaxN, last |-> "false"]}

InitCtor ==
    /\ w = [s \in Slots |-> LoopedCtor("bool", DefaultFn, Zero)]
    /\ origin = [s \in Slots |-> "ctor"]
    /\ pc = "idle"
    /\ cur = "a"
    /\ trace = <<>>
    /\ \E interval \in CtorIntervals :
          ret = [op |-> "interval", val |-> 0, arg |-> interval]
    /\ pending = <<>>
    /\ now = Epoch
    /\ times = <<>>

Construct(i) ==
    /\ ret.op = "interval"
    /\ \E sig \in LoopSigs, fn \in CtorFns :
          w' = [w EXCEPT ![i] = LoopedCtor(sig, fn, ret.arg)]
    /\ origin' = [origin EXCEPT ![i] = "ctor"]
    /\ cur' = i
    /\ ret' = [ret EXCEPT !.op = "construct"]
    /\ UNCHANGED <<pc, trace, pending, now, times>>

NextCtor == \E i \in Slots : Construct(i)

SpecCtor == InitCtor /\ [][NextCtor]_vars

\* ------------------------------------- constructing, then running
\* A looped wrapper is constructed with an interval of 0..MaxMs ms (every
\* interval below a second among them) or the largest one, and then run.
MaxMs == 1001

RunIntervals == {FromNat(n) : n \in 0..MaxMs} \cup {UINT_MAX}

InitRun ==
    /\ w = [s \in Slots |-> LoopedCtor("bool", DefaultFn, Zero)]
    /\ origin = [s \in Slots |-> "ctor"]
    /\ pc = "idle"
    /\ cur = "a"
    /\ trace = <<>>
    /\ \E interval \in RunIntervals :
          ret = [op |-> "interval", val |-> 0, arg |-> interval]
    /\ pending = <<>>
    /\ now = Epoch
    /\ times = <<>>

\* operator() of the object constructed last.
EnterConstructed == ret.op = "construct" /\ LoopedEnter(cur)

NextRun ==
    \/ Construct("a")
    \/ EnterConstructed
    \/ PreDelay
    \/ CallTask
    \/ InterDelay
    \/ Yield

SpecRun == InitRun /\ [][NextRun]_vars

\* ------------------------------------------------- sleeps that return
\* Looped wrappers alone, with the assumption that a sleep, a yield and a
\* call of the held function each come to an end.
InitLooped == Init /\ w \in [Slots -> LoopedWrappers]

NextLooped ==
    \/ \E i \in Slots : LoopedEnter(i)
    \/ PreDelay
    \/ CallTask
    \/ InterDelay
    \/ Yield

SpecFair ==
    /\ InitLooped
    /\ [][NextLooped]_vars
    /\ WF_vars(PreDelay)
    /\ WF_vars(CallTask)
    /\ WF_vars(InterDelay)
    /\ WF_vars(Yield)

\* ------------------------------------------------------ with the clock
\* One operator() of a looped wrapper with a nonzero break, the clock
\* followed: a call of the held function takes some time, and a sleep
\* ends at its deadline or a little later.
Second == 10^9

\* An unsigned int below 2^31 as a plain number.
ToNat(x) == x.hi * Half + x.lo

\* The point in time an xtime stands for, as thread::sleep(xt) reads it:
\* nsec of a second or more carries into sec.
Normal(t) == Xtime(t.sec + (t.nsec \div Second), t.nsec % Second)

Plus(t, d) == Normal(Xtime(t.sec + d.sec, t.nsec + d.nsec))

\* a is not later than b (both normal).
NotAfter(a, b) == a.sec < b.sec \/ (a.sec = b.sec /\ a.nsec <= b.nsec)

Later(a, b) == IF NotAfter(a, b) THEN b ELSE a

\* xtime_get(&xt, TIME_UTC_); xt.nsec += m_break_ns; xt.sec += m_break_s
Deadline(wr, clock) ==
    Xtime(clock.sec + ToNat(wr.break_s), clock.nsec + ToNat(wr.break_ns))

\* thread::sleep(xt) returns at xt, or `late` after it; at once if xt is
\* already past.
Wake(xt, clock, late) == Plus(Later(Normal(xt), clock), late)

Span(from, to) == [from |-> from, to |-> to]

StartClocks == {Epoch, Xtime(5, Second - 1)}

Lates == {Epoch, Xtime(0, 1)}

CallDurations == {Epoch, Xtime(0, Second \div 2), Xtime(2, 0)}

TimedIntervals == {FromNat(1), FromNat(1500), UINT_MAX}

TimedFns == {fn \in UserFns : fn.last = "false"}

InitTimed ==
    /\ \E fn \in TimedFns, i \in TimedIntervals :
          w = [s \in Slots |-> IF s = "a" THEN LoopedCtor("bool", fn, i)
                                           ELSE LoopedCtor("bool", DefaultFn, Zero)]
    /\ origin = [s \in Slots |-> "ctor"]
    /\ pc = "idle"
    /\ cur = "a"
    /\ trace = <<>>
    /\ ret = Ret("none", 0)
    /\ pending = <<>>
    /\ now \in StartClocks
    /\ times = <<>>

\* operator() is entered once, on object a.
TimedEnter == pc = "idle" /\ LoopedEnter("a")

TimedPreDelay ==
    /\ PreDelayStep
    /\ \E late \in Lates :
          /\ now' = Wake(Deadline(w[cur], now), now, late)
          /\ times' = Append(times, Span(now, now'))

TimedCall ==
    /\ CallTaskStep
    /\ \E d \in CallDurations :
          /\ now' = Plus(now, d)
          /\ times' = Append(times, Span(now, now'))

\* The sleep in the loop body taking its deadline from the start of the
\* call before it: a fixed period that makes up for a slow function.
TimedInterDelayCatchesUp ==
    /\ InterDelayStep
    /\ \E late \in Lates :
          /\ now' = Wake(Deadline(w[cur], times[Len(times)].from), now, late)
          /\ times' = Append(times, Span(now, now'))

TimedInterDelay ==
    /\ InterDelayStep
    /\ \E late \in Lates :
          /\ now' = Wake(Deadline(w[cur], now), now, late)
          /\ times' = Append(times, Span(now, now'))

NextTimed == TimedEnter \/ TimedPreDelay \/ TimedCall \/ TimedInterDelay

SpecTimed == InitTimed /\ [][NextTimed]_vars

\* ------------------------------------------------ comparing held tasks
\* Three priority wrappers of one result type are held (pending), and
\* operator< is applied to every ordered pair of them, (1,1), (1,2), ...,
\* (3,3); trace logs each result.
HeldTasks == {PriorityCtor("void", p, fn) : p \in Prios, fn \in {EmptyFn, DefaultFn}}

LessEv(i, j, lt) == [op |-> "less", lhs |-> i, rhs |-> j, res |-> IF lt THEN 1 ELSE 0]

InitOrder ==
    /\ w = [s \in Slots |-> PriorityCtor("void", Zero, DefaultFn)]
    /\ origin = [s \in Slots |-> "ctor"]
    /\ pc = "idle"
    /\ cur = "a"
    /\ trace = <<>>
    /\ ret = Ret("none", 0)
    /\ pending \in [1..3 -> HeldTasks]
    /\ now = Epoch
    /\ times = <<>>

\* pending[i] < pending[j] for the next pair (i, j).
CompareHeld ==
    /\ Len(trace) < 9
    /\ LET i == (Len(trace) \div 3) + 1
           j == (Len(trace) % 3) + 1
           lt == Less(pending[i], pending[j])
       IN /\ trace' = Append(trace, LessEv(i, j, lt))
          /\ ret' = Ret("less", IF lt THEN 1 ELSE 0)
    /\ UNCHANGED <<w, origin, pc, cur, pending, now, times>>

NextOrder == CompareHeld

SpecOrder == InitOrder /\ [][NextOrder]_vars

\* --------------------------------------------- a largest-first container
\* A scheduler's container of pending priority tasks, as the
\* documentation of priority_task_functor describes its use: tasks are
\* inserted, and the task removed is one that no held task compares
\* greater than by operator<.
MaxPending == 3

InitQueue ==
    /\ w = [s \in Slots |-> PriorityCtor("void", Zero, DefaultFn)]
    /\ origin = [s \in Slots |-> "ctor"]
    /\ pc = "idle"
    /\ cur = "a"
    /\ trace = <<>>
    /\ ret = Ret("none", 0)
    /\ pending = <<>>
    /\ now = Epoch
    /\ times = <<>>

\* No held task compares greater than the k-th.
IsTop(held, k) == \A j \in 1..Len(held) : ~Less(held[k], held[j])

Without(held, k) == [n \in 1..(Len(held) - 1) |-> IF n < k THEN held[n] ELSE held[n + 1]]

Push ==
    /\ Len(pending) < MaxPending
    /\ \E task \in HeldTasks : pending' = Append(pending, task)
    /\ ret' = Ret("push", 0)
    /\ UNCHANGED <<w, origin, pc, cur, trace, now, times>>

\* The removed task becomes object a, the task a worker is about to run.
Pop ==
    /\ \E k \in 1..Len(pending) :
          /\ IsTop(pending, k)
          /\ pending' = Without(pending, k)
          /\ w' = [w EXCEPT !["a"] = pending[k]]
    /\ cur' = "a"
    /\ ret' = Ret("pop", 0)
    /\ UNCHANGED <<origin, pc, trace, now, times>>

NextQueue == Push \/ Pop

SpecQueue == InitQueue /\ [][NextQueue]_vars

\* ------------------------------------------------------------- claims
\* The object the last operation acted on, and the other one.
This == w[cur]

That == w[Other(cur)]

\* A looped operator() on This has begun (and may have ended).
InLooped == ret.op = "invoke" /\ This.kind = "looped"

\* The configured break is not zero.
NonZeroBreak(wr) == wr.break_s # Zero \/ wr.break_ns # Zero

\* The held function returns true N times and then false: a caller's
\* function scripted so (N = trues), or the default lambda (N = 0).
StopsAfter(wr) == wr.fn.tag # "empty" /\ wr.fn.last = "false"

TheSleep(wr) == SleepEv(wr.break_s, wr.break_ns)

Odd(k) == k % 2 = 1

\* C1: for priority wrappers a and b of one result type, whatever
\* functions they hold (none included), a < b is true exactly when
\* a.priority < b.priority as unsigned numbers.
C1_LessIffPriorityLess ==
    ret.op = "less" =>
        (ret.val = 1 <=>
            \/ This.prio.hi < That.prio.hi
            \/ This.prio.hi = That.prio.hi /\ This.prio.lo < That.prio.lo)

\* A comparison that came out true between a wrapper holding no function
\* and one holding a caller's function, with priorities 1 and UINT_MAX.
C1_Witness ==
    /\ ret.op = "less"
    /\ ret.val = 1
    /\ This.fn.tag = "empty"
    /\ That.fn.tag = "user"
    /\ This.prio = FromNat(1)
    /\ That.prio = UINT_MAX

\* C2: a looped wrapper with a zero break whose function returns true N
\* times and then false: operator() never sleeps; when it has returned it
\* has called the function N + 1 times and yielded N times, a yield after
\* each true result, and the last event is the call that returned false.
C2_ZeroIntervalCallsAndYields ==
    (InLooped /\ ~NonZeroBreak(This) /\ StopsAfter(This)) =>
        /\ Sleeps = 0
        /\ pc # "thrown"
        /\ pc = "done" =>
              /\ Calls = This.fn.trues + 1
              /\ Yields = This.fn.trues
              /\ Len(trace) = 2 * This.fn.trues + 1
              /\ \A k \in 1..Len(trace) :
                    IF Odd(k)
                    THEN /\ IsCall(trace[k])
                         /\ trace[k].out = "ret"
                         /\ Truthy(trace[k].res) <=> k < Len(trace)
                    ELSE IsYield(trace[k])

\* A zero-break operator() that returned after two true results.
C2_Witness ==
    /\ InLooped
    /\ ~NonZeroBreak(This)
    /\ StopsAfter(This)
    /\ This.fn.trues = 2
    /\ pc = "done"
    /\ Calls = 3
    /\ Yields = 2

\* C3: in operator() of a non-empty looped wrapper with a nonzero break
\* the first event is one sleep of (break_seconds, break_nanoseconds), and
\* no call precedes it; with a zero break the first event is the call.
C3_PreDelayFirst ==
    (InLooped /\ ~IsEmpty(This)) =>
        IF NonZeroBreak(This)
        THEN \/ pc = "predelay" /\ trace = <<>>
             \/ /\ Len(trace) >= 1
                /\ trace[1] = TheSleep(This)
                /\ pc # "predelay"
        ELSE /\ pc # "predelay"
             /\ \/ pc = "loop" /\ trace = <<>>
                \/ Len(trace) >= 1 /\ IsCall(trace[1])

\* A sub-second break (1 ms): the sleep is over and the first call made.
C3_Witness ==
    /\ InLooped
    /\ This.fn.tag = "user"
    /\ This.break_s = Zero
    /\ This.break_ns = FromNat(1000000)
    /\ Len(trace) = 2
    /\ IsSleep(trace[1])
    /\ IsCall(trace[2])

\* C4: in operator() of a non-empty looped wrapper with a nonzero break,
\* sleeps of the configured duration and calls alternate, starting with a
\* sleep; a true result is followed by a sleep, never by a yield; and for
\* a function that returns true N times and then false, operator() has on
\* return slept N + 1 times, called N + 1 times and never yielded.
C4_SleepsAlternateWithCalls ==
    (InLooped /\ ~IsEmpty(This) /\ NonZeroBreak(This)) =>
        /\ Yields = 0
        /\ \A k \in 1..Len(trace) :
              IF Odd(k) THEN trace[k] = TheSleep(This) ELSE IsCall(trace[k])
        /\ pc = "break" =>
              /\ Len(trace) >= 2
              /\ IsCall(trace[Len(trace)])
              /\ Truthy(trace[Len(trace)].res)
        /\ (pc = "loop" /\ Len(trace) >= 3) =>
              /\ IsSleep(trace[Len(trace)])
              /\ Truthy(trace[Len(trace) - 1].res)
        /\ (pc = "done" /\ StopsAfter(This)) =>
              /\ Sleeps = This.fn.trues + 1
              /\ Calls = This.fn.trues + 1
              /\ Len(trace) = 2 * This.fn.trues + 2

\* A 1500 ms wrapper that returned after two true results and three sleeps.
C4_Witness ==
    /\ InLooped
    /\ This.break_s = FromNat(1)
    /\ This.break_ns = FromNat(500000000)
    /\ StopsAfter(This)
    /\ This.fn.trues = 2
    /\ pc = "done"
    /\ Sleeps = 3
    /\ Calls = 3

\* C5: operator() of a non-empty looped wrapper returns only right after a
\* call that returned false, the first such call, with no event after it;
\* with a function that never returns false it has not returned, however
\* many calls were made.
C5_StopsOnlyOnFalse ==
    (InLooped /\ ~IsEmpty(This)) =>
        /\ pc = "done" =>
              /\ Len(trace) >= 1
              /\ IsCall(trace[Len(trace)])
              /\ trace[Len(trace)].out = "ret"
              /\ ~Truthy(trace[Len(trace)].res)
        /\ \A k \in 1..(Len(trace) - 1) :
              IsCall(trace[k]) => trace[k].out = "ret" /\ Truthy(trace[k].res)
        /\ This.fn.last = "never" => pc \notin {"done", "thrown"}

\* A function that never returns false, still looping after MaxCalls calls.
C5_Witness ==
    /\ InLooped
    /\ This.fn.last = "never"
    /\ Calls = MaxCalls
    /\ pc = "break"

\* C6 as stated: empty() returns true for a default-constructed wrapper
\* and false after construction with a caller's function.
C6_Stated ==
    (ret.op = "empty" /\ origin[cur] = "ctor") =>
        /\ This.fn.tag = "default" => ret.val = 1
        /\ This.fn.tag = "user" => ret.val = 0

\* C6, amended: a default-constructed wrapper holds the default lambda of
\* the constructor's default argument, so its empty() returns false, as it
\* does after construction with a caller's function; empty() returns true
\* only for a wrapper constructed from an empty function object.
C6_EmptyOnlyWithoutTarget ==
    (ret.op = "empty" /\ origin[cur] = "ctor") =>
        /\ This.fn.tag = "default" => ret.val = 0
        /\ This.fn.tag = "user" => ret.val = 0
        /\ This.fn.tag = "empty" => ret.val = 1

\* empty() asked of a default-constructed looped wrapper.
C6_Witness ==
    /\ ret.op = "empty"
    /\ origin[cur] = "ctor"
    /\ This.kind = "looped"
    /\ This.fn.tag = "default"
    /\ ret.val = 0

\* C7: operator() of an empty wrapper of any class calls no function,
\* does not sleep or yield, raises nothing and returns the default value
\* of the result type.
C7_EmptyInvokeReturnsDefault ==
    (ret.op = "invoke" /\ IsEmpty(This)) =>
        /\ pc = "done"
        /\ trace = <<>>
        /\ ret.val = DefaultValue(This.sig)

\* C8 as stated: the converted priority wrapper has the source's priority
\* and holds no function.
C8_Stated ==
    (ret.op = "convert" /\ This.kind = "priority") =>
        /\ This.prio = That.prio
        /\ IsEmpty(This)

\* C8, amended: the converted priority wrapper has the source's priority
\* and another result type, and holds the default lambda, not the source's
\* function and not nothing: it is not empty, and its operator() runs the
\* default lambda once and returns the default value.
C8_ConvertKeepsPriorityHoldsDefault ==
    /\ (ret.op = "convert" /\ This.kind = "priority") =>
          /\ This.prio = That.prio
          /\ This.sig # That.sig
          /\ This.fn = DefaultFn
          /\ ~IsEmpty(This)
    /\ (ret.op = "invoke" /\ This.kind = "priority" /\ origin[cur] = "convert") =>
          /\ pc = "done"
          /\ Len(trace) = 1
          /\ trace[1].op = "call"
          /\ trace[1].fn = "default"
          /\ ret.val = DefaultValue(This.sig)

\* A priority wrapper converted from one that holds a caller's function,
\* with priority UINT_MAX.
C8_Witness ==
    /\ ret.op = "convert"
    /\ This.kind = "priority"
    /\ That.fn.tag = "user"
    /\ That.prio = UINT_MAX
    /\ This.prio = UINT_MAX
    /\ origin[Other(cur)] = "ctor"

\* C9 as stated: the converted looped wrapper has the source's break and
\* is empty, so its operator() returns without a call and without a sleep.
C9_Stated ==
    /\ (ret.op = "convert" /\ This.kind = "looped") =>
          /\ This.break_s = That.break_s
          /\ This.break_ns = That.break_ns
          /\ IsEmpty(This)
    /\ (InLooped /\ origin[cur] = "convert") => pc = "done" /\ trace = <<>>

\* C9, amended: the converted looped wrapper has the source's break and
\* holds the default lambda, so it is not empty; its operator() sleeps
\* once for the break if the break is not zero, calls the default lambda
\* once, gets false and returns.
C9_ConvertKeepsBreakHoldsDefault ==
    /\ (ret.op = "convert" /\ This.kind = "looped") =>
          /\ This.break_s = That.break_s
          /\ This.break_ns = That.break_ns
          /\ This.sig # That.sig
          /\ This.fn = DefaultFn
          /\ ~IsEmpty(This)
    /\ (InLooped /\ origin[cur] = "convert" /\ pc = "done") =>
          /\ Calls = 1
          /\ Yields = 0
          /\ trace[Len(trace)].fn = "default"
          /\ trace[Len(trace)].res = 0
          /\ IF NonZeroBreak(This)
             THEN Len(trace) = 2 /\ trace[1] = TheSleep(This)
             ELSE Len(trace) = 1
    /\ (InLooped /\ origin[cur] = "convert") => pc # "thrown" /\ pc # "break"

\* A converted looped wrapper with a 1500 ms break whose operator() has
\* slept, called the default lambda and returned.
C9_Witness ==
    /\ InLooped
    /\ origin[cur] = "convert"
    /\ pc = "done"
    /\ This.break_s = FromNat(1)
    /\ This.break_ns = FromNat(500000000)
    /\ Len(trace) = 2

\* C10: constructing a looped wrapper with any 32-bit interval gives
\* break_seconds = interval / 1000 and
\* break_nanoseconds = (interval mod 1000) * 1000000 with no step of the
\* computation leaving 32 bits; break_nanoseconds < 1000000000; and
\* break_seconds * 1000 + break_nanoseconds / 1000000 = interval.
C10_IntervalDecomposition ==
    ret.op = "construct" =>
        LET secs  == This.break_s
            nanos == This.break_ns
            back  == MulFull(secs, 1000)
            rest  == SubFull(ret.arg, back.val)
            micro == MulFull(rest.val, 1000)
            nano  == MulFull(micro.val, 1000)
            sum   == AddFull(back.val, Div(Div(nanos, 1000), 1000))
        IN /\ back.over = 0
           /\ rest.borrow = 0
           /\ micro.over = 0
           /\ nano.over = 0
           /\ rest.val.hi = 0
           /\ rest.val.lo < 1000
           /\ rest.val = Mod(ret.arg, 1000)
           /\ nanos = nano.val
           /\ Lt(nanos, FromNat(1000000000))
           /\ Mod(nanos, 1000) = Zero
           /\ Mod(Div(nanos, 1000), 1000) = Zero
           /\ sum.carry = 0
           /\ sum.val = ret.arg
           /\ ~Lt(ret.arg, back.val)
           /\ ret.arg = FromNat(1500) =>
                 secs = FromNat(1) /\ nanos = FromNat(500000000)

\* The largest interval, 4294967295 ms: 4294967 s and 295000000 ns.
C10_Witness ==
    /\ ret.op = "construct"
    /\ ret.arg = UINT_MAX
    /\ This.break_s = FromNat(4294967)
    /\ This.break_ns = FromNat(295000000)

\* C11: operator() of a non-empty basic or priority wrapper calls the held
\* function exactly once and returns what it returned (or lets its failure
\* out); the outcome is that of the function alone, the same for a basic
\* and for a priority wrapper whatever the priority.
C11_InvokeOnceReturnsResult ==
    (ret.op = "invoke" /\ This.kind \in {"basic", "priority"} /\ ~IsEmpty(This)) =>
        LET out == Outcome(This.sig, This.fn, 1)
        IN /\ Len(trace) = 1
           /\ trace[1].op = "call"
           /\ trace[1].fn = This.fn.tag
           /\ trace[1].out = out.kind
           /\ trace[1].res = out.val
           /\ pc = (IF out.kind = "throw" THEN "thrown" ELSE "done")
           /\ pc = "done" => ret.val = out.val

\* A priority wrapper of priority UINT_MAX over int whose function
\* returned 1, and operator() returned 1.
C11_Witness ==
    /\ ret.op = "invoke"
    /\ This.kind = "priority"
    /\ This.prio = UINT_MAX
    /\ This.sig = "int"
    /\ This.fn.tag = "user"
    /\ pc = "done"
    /\ Calls = 1
    /\ ret.val = 1

\* C12: a failure of the held function leaves operator() as a failure, at
\* once: the failing call is the last event, nothing is caught, and for a
\* looped wrapper whose function fails on its k-th call exactly k calls
\* were made; the step that lets the failure out changes no wrapper.
C12_FailurePropagates ==
    /\ [](ret.op = "invoke" =>
            /\ \A k \in 1..Len(trace) :
                  trace[k].out = "throw" => k = Len(trace) /\ pc = "thrown"
            /\ pc = "thrown" =>
                  Len(trace) >= 1 /\ trace[Len(trace)].out = "throw"
            /\ (This.kind = "looped" /\ ~IsEmpty(This) /\ This.fn.last = "throw") =>
                  /\ pc # "done"
                  /\ Calls <= This.fn.trues + 1
                  /\ pc = "thrown" <=> Calls = This.fn.trues + 1
            /\ (This.kind # "looped" /\ This.fn.tag = "user"
                   /\ This.fn.last = "throw" /\ This.fn.trues = 0) =>
                  pc = "thrown")
    /\ [][pc' = "thrown" => w' = w]_vars

\* A looped wrapper with a 1500 ms break whose function failed on its
\* third call: three sleeps, three calls, and the failure is out.
C12_Witness ==
    /\ InLooped
    /\ This.fn.last = "throw"
    /\ This.fn.trues = 2
    /\ This.break_s = FromNat(1)
    /\ pc = "thrown"
    /\ Calls = 3
    /\ Sleeps = 3

\* C16: operator() in all its steps, empty() and operator< change no
\* wrapper: function, emptiness, priority and break stay as they were, for
\* both objects.
C16_InvocationLeavesWrapper ==
    [][ret'.op \in {"invoke", "empty", "less"} =>
          /\ w' = w
          /\ \A i \in Slots : IsEmpty(w'[i]) <=> IsEmpty(w[i])]_vars

\* A looped wrapper as constructed, after an operator() with three sleeps
\* and three calls has returned.
C16_Witness ==
    /\ InLooped
    /\ pc = "done"
    /\ origin[cur] = "ctor"
    /\ This \in LoopedWrappers
    /\ ~IsEmpty(This)
    /\ Sleeps = 3
    /\ Calls = 3
    /\ This.break_ns = FromNat(1000000)

\* C18: cross-type assignment overwrites the target's priority (priority
\* wrapper) or break (looped wrapper) with the source's and leaves the
\* target's function, emptiness and result type, and the source, as they
\* were.
C18_AssignOverwritesMetadataOnly ==
    [][ret'.op = "assign" =>
          LET dst == cur'
              src == Other(cur')
          IN /\ w'[dst].fn = w[dst].fn
             /\ IsEmpty(w'[dst]) <=> IsEmpty(w[dst])
             /\ w'[dst].sig = w[dst].sig
             /\ w'[dst].kind = w[dst].kind
             /\ w'[src] = w[src]
             /\ w'[dst].prio = w[src].prio
             /\ w'[dst].break_s = w[src].break_s
             /\ w'[dst].break_ns = w[src].break_ns]_vars

\* A looped target that holds a caller's function and was given a 1500 ms
\* break by assignment from a wrapper that holds the default lambda.
C18_Witness ==
    /\ ret.op = "assign"
    /\ This.kind = "looped"
    /\ This.fn.tag = "user"
    /\ That.fn.tag = "default"
    /\ This.sig # That.sig
    /\ This.break_s = FromNat(1)
    /\ This.break_ns = FromNat(500000000)

\* The comparisons logged so far: whether pair (i, j) was compared, and
\* whether operator< returned true for it.
Logged(i, j) == (i - 1) * 3 + j <= Len(trace)

Lower(i, j) == trace[(i - 1) * 3 + j].res = 1

Unordered(i, j) == ~Lower(i, j) /\ ~Lower(j, i)

\* C13: operator< is a strict ordering in which equal priorities are
\* incomparable: never a < a; a < b excludes b < a; a < b and b < c give
\* a < c; a and b have the same priority exactly when neither a < b nor
\* b < a; and being incomparable is transitive.
C13_StrictWeakOrder ==
    \A i \in 1..3, j \in 1..3, k \in 1..3 :
        /\ Logged(i, i) => ~Lower(i, i)
        /\ (Logged(i, j) /\ Logged(j, i)) =>
              /\ Lower(i, j) => ~Lower(j, i)
              /\ pending[i].prio = pending[j].prio <=> Unordered(i, j)
        /\ (Logged(i, j) /\ Logged(j, k) /\ Logged(i, k)) =>
              ((Lower(i, j) /\ Lower(j, k)) => Lower(i, k))
        /\ Len(trace) = 9 =>
              ((Unordered(i, j) /\ Unordered(j, k)) => Unordered(i, k))

\* All nine comparisons made of three tasks with priorities 0 < 1 < UINT_MAX,
\* with the chain a < b, b < c, a < c logged.
C13_Witness ==
    /\ Len(trace) = 9
    /\ trace[1].op = "less"
    /\ pending[1].prio = Zero
    /\ pending[2].prio = FromNat(1)
    /\ pending[3].prio = UINT_MAX
    /\ Lower(1, 2)
    /\ Lower(2, 3)
    /\ Lower(1, 3)

\* C14: a task removed from the largest-first container has a priority
\* greater than or equal to that of every task still pending at that
\* moment; which of several tasks of the largest priority it is, is open.
C14_RemovedIsLargest ==
    ret.op = "pop" =>
        \A j \in 1..Len(pending) :
            \/ pending[j].prio.hi < This.prio.hi
            \/ /\ pending[j].prio.hi = This.prio.hi
               /\ pending[j].prio.lo <= This.prio.lo

\* A task of priority 1 removed while tasks of priority 0 and 1 are still
\* pending.
C14_Witness ==
    /\ ret.op = "pop"
    /\ This.prio = FromNat(1)
    /\ Len(pending) = 2
    /\ pending[1].prio = FromNat(1)
    /\ pending[2].prio = Zero

\* t is at least the break of wr after t0.
BreakPassed(wr, t0, t) ==
    LET sec  == t0.sec + wr.break_s.hi * Half + wr.break_s.lo
        nsec == t0.nsec + wr.break_ns.hi * Half + wr.break_ns.lo
        due  == IF nsec >= 10^9 THEN Xtime(sec + 1, nsec - 10^9) ELSE Xtime(sec, nsec)
    IN due.sec < t.sec \/ (due.sec = t.sec /\ due.nsec <= t.nsec)

\* C15: with a nonzero break every sleep begins when the event before it
\* ended (the first at entry) and ends no earlier than the break after
\* its own beginning; so every call begins at least the break after the
\* call before it ended, however long that call took, and the first call
\* at least the break after entry.
C15_MinimumIntervalNoCatchUp ==
    (InLooped /\ ~IsEmpty(This) /\ NonZeroBreak(This)) =>
        /\ Len(times) = Len(trace)
        /\ \A k \in 1..Len(trace) :
              /\ k > 1 => times[k].from = times[k - 1].to
              /\ IsSleep(trace[k]) => BreakPassed(This, times[k].from, times[k].to)
              /\ IsCall(trace[k]) =>
                    /\ k >= 2
                    /\ IsSleep(trace[k - 1])
                    /\ BreakPassed(This, times[k - 1].from, times[k].from)
                    /\ k >= 4 =>
                          /\ IsCall(trace[k - 2])
                          /\ BreakPassed(This, times[k - 2].to, times[k].from)

\* A 1500 ms wrapper entered at 5.999999999 s whose first call took 2 s:
\* the second call began at least 1.5 s after the first had ended.
C15_Witness ==
    /\ InLooped
    /\ This.break_s = FromNat(1)
    /\ This.break_ns = FromNat(500000000)
    /\ Len(trace) >= 4
    /\ Len(times) >= 4
    /\ times[1].from = Xtime(5, 999999999)
    /\ times[2].to = Plus(times[2].from, Xtime(2, 0))
    /\ IsCall(trace[4])
    /\ BreakPassed(This, times[2].to, times[4].from)

\* operator() of the looped wrapper This is running.
Running == InLooped /\ pc \in {"predelay", "loop", "break"}

\* C17: if sleeps, yields and calls come to an end, operator() of a looped
\* wrapper whose function returns false on its k-th call returns, after
\* exactly k calls, with a zero break and with a nonzero one.
C17_ReturnsAfterFalse ==
    /\ (Running /\ StopsAfter(This) /\ NonZeroBreak(This))
          ~> (pc = "done" /\ Calls = This.fn.trues + 1 /\ Sleeps = Calls)
    /\ (Running /\ StopsAfter(This) /\ ~NonZeroBreak(This))
          ~> (pc = "done" /\ Calls = This.fn.trues + 1 /\ Yields = Calls - 1)

\* operator() returned after the second call, the first to return false,
\* of a function run with a zero break.
C17_Witness ==
    /\ InLooped
    /\ StopsAfter(This)
    /\ This.fn.tag = "user"
    /\ This.fn.trues = 1
    /\ ~NonZeroBreak(This)
    /\ pc = "done"
    /\ Calls = 2
    /\ Yields = 1

\* C19: the test m_break_s > 0 || m_break_ns > 0 on a constructed wrapper
\* is true exactly when the interval was not 0; both fields are zero
\* exactly for interval 0; an interval of 1..999 ms gives zero seconds and
\* nonzero nanoseconds, and its operator() sleeps and never yields; no
\* operator() both sleeps and yields.
C19_BreakTestIsIntervalNonZero ==
    /\ ret.op = "construct" =>
          /\ HasBreak(This) <=> ret.arg # Zero
          /\ (This.break_s = Zero /\ This.break_ns = Zero) <=> ret.arg = Zero
          /\ (ret.arg.hi = 0 /\ ret.arg.lo >= 1 /\ ret.arg.lo <= 999) =>
                /\ This.break_s = Zero
                /\ This.break_ns # Zero
                /\ HasBreak(This)
    /\ InLooped =>
          /\ ~(Sleeps > 0 /\ Yields > 0)
          /\ (This.break_s = Zero /\ This.break_ns # Zero) => Yields = 0
          /\ NonZeroBreak(This) => Yields = 0
          /\ ~NonZeroBreak(This) => Sleeps = 0
          /\ (pc = "break" /\ This.break_s = Zero /\ This.break_ns # Zero) =>
                ENABLED InterDelay /\ ~ENABLED Yield

\* A wrapper constructed with 999 ms whose operator() returned after
\* sleeping before each of its calls.
C19_Witness ==
    /\ InLooped
    /\ This.break_s = Zero
    /\ This.break_ns = FromNat(999000000)
    /\ pc = "done"
    /\ Calls = MaxN + 1
    /\ Sleeps = MaxN + 1
    /\ Yields = 0
=============================================================================
